---- MODULE Spec2Model ----
(***************************************************************************)
(* Rhode Island CTC calculator: the client-side orchestration between the  *)
(* form (Home / HouseholdForm), the query layer (useAggregateImpact,       *)
(* useHouseholdImpact on @tanstack/react-query v5) and the API client      *)
(* (lib/api.ts).                                                           *)
(*                                                                         *)
(* Time is in milliseconds and advances in steps of MsPerTick.  A timer    *)
(* that is due (the fetch deadline, the retry delay) fires before time     *)
(* advances further.  JavaScript objects are ordered sequences of          *)
(* <<key, value>> pairs, so that JSON.stringify (order-sensitive) and the  *)
(* query-key hash (order-insensitive) are different conversions.           *)
(***************************************************************************)
EXTENDS Integers, Sequences, FiniteSets, TLC

-----------------------------------------------------------------------------
(* Values *)

\* null / undefined, and a present value
Null == <<>>
Some(v) == <<v>>

\* Bounds of the model
MaxNavigations == 4
MsPerTick == 300000
CtcAmounts == {1000, 2000}

\* Program constants
DEFAULT_TIMEOUT == 120000
staleTime == 5 * 60 * 1000
gcTime == 10 * 60 * 1000
retry == 1
throwOnError_mutant == TRUE
throwOnError == FALSE

Min(a, b) == IF a < b THEN a ELSE b

-----------------------------------------------------------------------------
(* Objects: ordered key/value sequences *)

ObjKeys(o) == { o[i][1] : i \in DOMAIN o }

Get(o, k) == LET i == CHOOSE j \in DOMAIN o : o[j][1] = k IN o[i][2]

\* { ...o, k: v } : an existing key keeps its position, a new key is appended
Spread(o, k, v) ==
    IF k \in ObjKeys(o)
    THEN [i \in DOMAIN o |-> IF o[i][1] = k THEN <<k, v>> ELSE o[i]]
    ELSE Append(o, <<k, v>>)

FilingStatuses == {"SINGLE", "JOINT", "HEAD_OF_HOUSEHOLD", "SURVIVING_SPOUSE", "SEPARATE"}

ZeroThresholds ==
    << <<"SINGLE", 0>>, <<"JOINT", 0>>, <<"HEAD_OF_HOUSEHOLD", 0>>,
       <<"SURVIVING_SPOUSE", 0>>, <<"SEPARATE", 0>> >>

NestedKeys == {"ctc_phaseout_thresholds", "exemption_phaseout_thresholds"}

BooleanKeys == {"enable_exemption_reform", "exemption_age_limit_enabled"}

\* Number(text) of a numeral beyond the range of a double: Infinity, which
\* is greater than every other number
Infinity == 2147483647

\* JSON.stringify of a number: its numeral, and null for a number that is
\* not finite
JSONnumber(n) == IF n = Infinity THEN Null ELSE Some(n)

\* JSON.stringify of a value of the given type.  The text keeps the
\* insertion order of the keys: it is determined by, and determines, the
\* ordered sequence of pairs.
RECURSIVE JSONstringify(_, _)
JSONstringify(v, type) ==
    CASE type = "number[]" ->
            [i \in DOMAIN v |-> JSONnumber(v[i])]
      [] type = "PhaseoutThresholds" ->
            [i \in DOMAIN v |-> <<v[i][1], JSONnumber(v[i][2])>>]
      [] type = "ReformParams" ->
            [i \in DOMAIN v |->
                <<v[i][1],
                  IF v[i][1] \in NestedKeys THEN JSONstringify(v[i][2], "PhaseoutThresholds")
                  ELSE IF v[i][1] \in BooleanKeys THEN v[i][2]
                  ELSE JSONnumber(v[i][2])>>]
      [] type = "HouseholdRequest" ->
            [i \in DOMAIN v |->
                <<v[i][1],
                  IF v[i][1] = "reform_params" THEN JSONstringify(v[i][2], "ReformParams")
                  ELSE IF v[i][1] = "dependent_ages" THEN JSONstringify(v[i][2], "number[]")
                  ELSE IF v[i][1] = "age_spouse"
                       THEN (IF v[i][2] = Null THEN Null ELSE JSONnumber(v[i][2][1]))
                  ELSE JSONnumber(v[i][2])>>]
      [] type = "AggregateImpactRequest" ->
            [i \in DOMAIN v |->
                <<v[i][1],
                  IF v[i][1] = "reform_params" THEN JSONstringify(v[i][2], "ReformParams")
                  ELSE JSONnumber(v[i][2])>>]

DefaultReformParams ==
    << <<"ctc_amount", 1000>>,
       <<"ctc_age_limit", 18>>,
       <<"ctc_refundability_cap", 0>>,
       <<"ctc_phaseout_rate", 0>>,
       <<"ctc_phaseout_thresholds", ZeroThresholds>>,
       <<"ctc_young_child_boost_amount", 0>>,
       <<"ctc_young_child_boost_age_limit", 6>>,
       <<"enable_exemption_reform", FALSE>>,
       <<"exemption_amount", 5200>>,
       <<"exemption_age_limit_enabled", TRUE>>,
       <<"exemption_age_threshold", 18>>,
       <<"exemption_phaseout_rate", 0>>,
       <<"exemption_phaseout_thresholds", ZeroThresholds>> >>

\* hashKey of the query layer: JSON with the keys of every object sorted,
\* i.e. the object as an unordered map, nested objects included.
FlatMap(o) == [k \in ObjKeys(o) |-> Get(o, k)]

HashObj(o) ==
    [k \in ObjKeys(o) |-> IF k \in NestedKeys THEN FlatMap(Get(o, k)) ELSE Get(o, k)]

-----------------------------------------------------------------------------
(* State *)

VARIABLES
    form,                  \* Home: live form values
    calculated,            \* Home: calculated* snapshot
    calculationTriggered,  \* Home
    activeTab,             \* Home
    cache,                 \* QueryCache: query name -> (key hash -> query state)
    observer,              \* QueryObserver of each hook: the key it is subscribed to
    navigations,           \* number of handleCalculate and setActiveTab calls so far
    unhandled,             \* an error escaped the query layer
    client,                \* one invocation of the API client on its own
    lastSubscribe,         \* history: what the subscription made by the last step found
    view                   \* what the part of the page under study shows (Null: not shown)

vars == <<form, calculated, calculationTriggered, activeTab, cache, observer,
          navigations, unhandled, client, lastSubscribe, view>>

Queries == {"household", "aggregate"}

InitialForm ==
    [ageHead |-> 35, ageSpouse |-> Null, married |-> FALSE,
     dependentAges |-> <<5>>, income |-> 50000,
     reformParams |-> DefaultReformParams]

\* hasChanges without the comparison of the reform parameters
hasChanges_mutant(f, c) ==
    \/ f.ageHead # c.ageHead
    \/ f.ageSpouse # c.ageSpouse
    \/ f.married # c.married
    \/ JSONstringify(f.dependentAges, "number[]") # JSONstringify(c.dependentAges, "number[]")
    \/ f.income # c.income

\* Home: hasChanges
hasChanges(f, c) ==
    \/ f.ageHead # c.ageHead
    \/ f.ageSpouse # c.ageSpouse
    \/ f.married # c.married
    \/ JSONstringify(f.dependentAges, "number[]") # JSONstringify(c.dependentAges, "number[]")
    \/ f.income # c.income
    \/ JSONstringify(f.reformParams, "ReformParams") # JSONstringify(c.reformParams, "ReformParams")

\* HouseholdForm: the Calculate button is disabled iff
\* calculationTriggered && !hasChanges
ButtonEnabled(triggered, f, c) == ~(triggered /\ ~hasChanges(f, c))

\* The request with a negative income raised to 0
HouseholdRequest_mutant(c) ==
    << <<"age_head", c.ageHead>>,
       <<"age_spouse", IF c.married THEN c.ageSpouse ELSE Null>>,
       <<"dependent_ages", c.dependentAges>>,
       <<"income", IF c.income < 0 THEN 0 ELSE c.income>>,
       <<"reform_params", c.reformParams>> >>

\* Home: props handed to ImpactAnalysis, and the request it builds
HouseholdRequest(c) ==
    << <<"age_head", c.ageHead>>,
       <<"age_spouse", IF c.married THEN c.ageSpouse ELSE Null>>,
       <<"dependent_ages", c.dependentAges>>,
       <<"income", c.income>>,
       <<"reform_params", c.reformParams>> >>

HashRequest(r) ==
    [k \in ObjKeys(r) |-> IF k = "reform_params" THEN HashObj(Get(r, k)) ELSE Get(r, k)]

\* A query key that leaves the reform parameters out
useAggregateImpactKey_mutant(reformParams) == <<"aggregate-impact">>

\* queryKey of each hook, hashed
useAggregateImpactKey(reformParams) == <<"aggregate-impact", HashObj(reformParams)>>

useHouseholdImpactKey(request) == <<"household-impact", HashRequest(request)>>

\* The key of the query each tab's component asks for, given Home's snapshot
QueryKey(q, c) ==
    IF q = "aggregate"
    THEN useAggregateImpactKey(c.reformParams)
    ELSE useHouseholdImpactKey(HouseholdRequest(c))

\* The query each tab's component observes
TabQuery(tab) == IF tab = "impact" THEN "household" ELSE "aggregate"

-----------------------------------------------------------------------------
(* API client (lib/api.ts) *)

\* What the network does with one fetch: a response with a status and a
\* body, or a failure of the transport.
Bodies ==
    { [parses |-> FALSE, value |-> Null],
      [parses |-> TRUE,  value |-> << <<"detail", "Dataset not loaded">> >>],
      [parses |-> TRUE,  value |-> << <<"detail", "">> >>],
      [parses |-> TRUE,  value |-> << <<"error", "oops">> >>],
      [parses |-> TRUE,  value |-> << <<"status", "healthy">> >>] }

Statuses == {200, 404, 422, 500}

ResponseOk(status) == status >= 200 /\ status <= 299

Fulfilled(v) == [settled |-> "fulfilled", value |-> Some(v), error |-> Null]
Rejected(e)  == [settled |-> "rejected",  value |-> Null,    error |-> Some(e)]

Message(text, arg) == [text |-> text, arg |-> arg]

\* class ApiError extends Error
ApiError(message, status, response) ==
    [name |-> "ApiError", message |-> message, status |-> status, response |-> response]

\* What fetch() itself rejects with: a TypeError on a network failure, an
\* AbortError when controller.abort() ran.  Neither has a status field.
TypeError  == [name |-> "TypeError",  message |-> Message("Failed to fetch", Null),
               status |-> Null, response |-> Null]
AbortError == [name |-> "AbortError", message |-> Message("The operation was aborted", Null),
               status |-> Null, response |-> Null]
SyntaxError == [name |-> "SyntaxError", message |-> Message("Unexpected token", Null),
                status |-> Null, response |-> Null]

\* response.json(): the parsed body, or a SyntaxError
ResponseJson(body) ==
    IF body.parses THEN Fulfilled(body.value) ELSE Rejected(SyntaxError)

\* await response.json().catch(() => null)
ErrorData(body) == IF body.parses THEN Some(body.value) ELSE Null

\* The generic message whatever the payload
DetailOrHttpError_mutant(errorData, status) == Message("HTTP error ", Some(status))

\* errorData?.detail || `HTTP error ${response.status}`
DetailOrHttpError(errorData, status) ==
    IF /\ errorData # Null
       /\ "detail" \in ObjKeys(errorData[1])
       /\ Get(errorData[1], "detail") # ""
    THEN Message(Get(errorData[1], "detail"), Null)
    ELSE Message("HTTP error ", Some(status))

\* fetchWithTimeout with a catch clause that wraps what fetch rejected with
fetchWithTimeout_mutant(ev) ==
    IF ev.type = "response" THEN Fulfilled(ev)
    ELSE IF ev.type = "abort"
         THEN Rejected(ApiError(Message("Request timed out", Null), Null, Null))
         ELSE Rejected(ApiError(Message("Failed to fetch", Null), Null, Null))

\* fetchWithTimeout: the response, or whatever fetch rejected with (it has
\* a finally clause and no catch clause)
fetchWithTimeout(ev) ==
    IF ev.type = "response" THEN Fulfilled(ev)
    ELSE IF ev.type = "abort" THEN Rejected(AbortError)
    ELSE Rejected(TypeError)

\* A variant that sends the request again when the fetch was rejected
fetchCalls_mutant(request, ev) ==
    IF ev.type = "response" THEN <<request>> ELSE <<request, request>>

\* The calls of fetch() that one run of fetchWithTimeout makes: the single
\* `await fetch(url, ...)` of its try block, whatever comes of it
fetchCalls(request, ev) == <<request>>

\* The body of calculateHouseholdImpact, calculateAggregateImpact and
\* getDatasetSummary after the fetch
CheckedJson(ev) ==
    LET r == fetchWithTimeout(ev) IN
    IF r.settled = "rejected" THEN r
    ELSE IF ~ResponseOk(ev.status)
         THEN Rejected(ApiError(DetailOrHttpError(ErrorData(ev.body), ev.status),
                                Some(ev.status), ErrorData(ev.body)))
         ELSE ResponseJson(ev.body)

calculateHouseholdImpact(ev) == CheckedJson(ev)

calculateAggregateImpact(ev) == CheckedJson(ev)

health(ev) ==
    LET r == fetchWithTimeout(ev) IN
    IF r.settled = "rejected" THEN r
    ELSE IF ~ResponseOk(ev.status)
         THEN Rejected(ApiError(Message("Health check failed: ", Some(ev.status)), Null, Null))
         ELSE ResponseJson(ev.body)

getDatasetSummary(ev) == CheckedJson(ev)

Operations ==
    {"calculateHouseholdImpact", "calculateAggregateImpact", "health", "getDatasetSummary"}

ApiCall(op, ev) ==
    CASE op = "calculateHouseholdImpact" -> calculateHouseholdImpact(ev)
      [] op = "calculateAggregateImpact" -> calculateAggregateImpact(ev)
      [] op = "health" -> health(ev)
      [] op = "getDatasetSummary" -> getDatasetSummary(ev)

\* The url and the method of the one fetchWithTimeout call of each operation
Endpoint(op) ==
    CASE op = "calculateHouseholdImpact" -> [url |-> "/api/household-impact", method |-> "POST"]
      [] op = "calculateAggregateImpact" -> [url |-> "/api/aggregate-impact", method |-> "POST"]
      [] op = "health" -> [url |-> "/api/health", method |-> "GET"]
      [] op = "getDatasetSummary" -> [url |-> "/api/dataset-summary", method |-> "GET"]

\* The requests that leave the client during one invocation of an operation
ApiRequests(op, ev) == fetchCalls(Endpoint(op), ev)

\* The request body each calculation sends
AggregateBody(reformParams) ==
    JSONstringify(<< <<"year", 2027>>, <<"reform_params", reformParams>> >>,
                  "AggregateImpactRequest")

HouseholdBody(request) == JSONstringify(request, "HouseholdRequest")

-----------------------------------------------------------------------------
(* Query layer: useQuery({queryKey, queryFn, staleTime, gcTime, retry}) *)

\* Options of each hook
useAggregateImpactOptions ==
    [staleTime |-> staleTime, gcTime |-> gcTime, retry |-> retry,
     throwOnError |-> throwOnError]

useHouseholdImpactOptions ==
    [staleTime |-> 5 * 60 * 1000, gcTime |-> 10 * 60 * 1000, retry |-> 1,
     throwOnError |-> FALSE]

Options(q) ==
    IF q = "aggregate" THEN useAggregateImpactOptions ELSE useHouseholdImpactOptions

\* queryFn of each hook: the operation it calls and the body it sends
QueryFnOperation(q) ==
    IF q = "aggregate" THEN "calculateAggregateImpact" ELSE "calculateHouseholdImpact"

QueryFnBody(q, c) ==
    IF q = "aggregate" THEN AggregateBody(c.reformParams)
    ELSE HouseholdBody(HouseholdRequest(c))

\* The backend answers the request it received
ResultFor(body) == << <<"computed_for", body>> >>

\* A query as the cache creates it: no data, not fetching, gc timer armed
NewQuery ==
    [status |-> "pending", data |-> Null, error |-> Null,
     fetchStatus |-> "idle", attempt |-> "none", sent |-> Null,
     failureCount |-> 0, failureReason |-> Null,
     isRetryCancelled |-> FALSE, calls |-> 0,
     dataAge |-> 0, errorAge |-> 0, gcTimer |-> Some(0), observers |-> 0]

\* Staleness by the time of the last update, data or error
IsStale_mutant(q, e) ==
    IF e.status = "error" THEN e.errorAge >= Options(q).staleTime
    ELSE e.data = Null \/ e.dataAge >= Options(q).staleTime

\* Query.isStaleByTime
IsStale(q, e) == e.data = Null \/ e.dataAge >= Options(q).staleTime

\* Query.fetch: nothing new while a fetch is running (the retryer is told
\* to continue), otherwise dispatch 'fetch' and run the query function once
StartFetch(q, e, body) ==
    IF e.fetchStatus # "idle"
    THEN [e EXCEPT !.isRetryCancelled = FALSE]
    ELSE [e EXCEPT !.fetchStatus = "fetching",
                   !.attempt = "calling",
                   !.sent = Some(body),
                   !.calls = 1,
                   !.failureCount = 0,
                   !.failureReason = Null,
                   !.isRetryCancelled = FALSE,
                   !.error = IF e.data = Null THEN Null ELSE e.error,
                   !.errorAge = IF e.data = Null THEN 0 ELSE e.errorAge,
                   !.status = IF e.data = Null THEN "pending" ELSE e.status]

\* A subscription that fetches whether or not the data is stale
Observe_mutant(q, c, k, body) ==
    LET e0 == IF k \in DOMAIN c THEN c[k] ELSE NewQuery
        e1 == [e0 EXCEPT !.observers = e0.observers + 1, !.gcTimer = Null]
    IN [x \in DOMAIN c \cup {k} |-> IF x = k THEN StartFetch(q, e1, body) ELSE c[x]]

\* QueryObserver.onSubscribe / setOptions on the query of key k: build the
\* query if the cache has none, add the observer (which clears the gc
\* timer), and fetch if it has no data or its data is stale
Observe(q, c, k, body) ==
    LET e0 == IF k \in DOMAIN c THEN c[k] ELSE NewQuery
        e1 == [e0 EXCEPT !.observers = e0.observers + 1, !.gcTimer = Null]
        e2 == IF IsStale(q, e1) THEN StartFetch(q, e1, body) ELSE e1
    IN [x \in DOMAIN c \cup {k} |-> IF x = k THEN e2 ELSE c[x]]

\* A removeObserver that cancels the running fetch and reverts the query
\* to its state before the fetch, as it would if the query function
\* consumed the abort signal
Unobserve_cancel_mutant(q, c, k) ==
    [c EXCEPT ![k] = [c[k] EXCEPT !.observers = 0,
                                  !.fetchStatus = "idle",
                                  !.attempt = "none",
                                  !.sent = Null,
                                  !.calls = 0,
                                  !.gcTimer = Some(0)]]

\* An observer that never leaves the query it observed
Unobserve_mutant(q, c, k) == c

\* Query.removeObserver: the last observer leaving cancels further retries
\* (the query function does not consume the abort signal, so the running
\* request goes on) and arms the gc timer
Unobserve(q, c, k) ==
    LET e == c[k]
        n == e.observers - 1
    IN [c EXCEPT ![k] =
          IF n = 0
          THEN [e EXCEPT !.observers = 0,
                         !.isRetryCancelled = (e.fetchStatus = "fetching"),
                         !.gcTimer = Some(0)]
          ELSE [e EXCEPT !.observers = n]]

\* QueryObserver.setOptions: the observer moves from the query of key old
\* to the query of key new
Switch(q, c, old, new, body) ==
    IF old = new THEN c
    ELSE Observe(q, Unobserve(q, c, old), new, body)

\* scheduleGc after a fetch.  With an observer present the timer's callback
\* (optionalRemove) does nothing and removeObserver re-arms the timer, so
\* the timer is tracked only for a query without observers.
ScheduleGcAfterFetch(e) == IF e.observers = 0 THEN Some(0) ELSE Null

\* dispatch 'success' (setData), then scheduleGc
Succeed(e, data) ==
    [e EXCEPT !.status = "success", !.data = Some(data), !.dataAge = 0,
              !.error = Null, !.errorAge = 0,
              !.fetchStatus = "idle", !.attempt = "none",
              !.sent = Null, !.calls = 0,
              !.isRetryCancelled = FALSE,
              !.failureCount = 0, !.failureReason = Null,
              !.gcTimer = ScheduleGcAfterFetch(e)]

\* dispatch 'error', then scheduleGc
SettleError(e, err) ==
    [e EXCEPT !.status = "error", !.error = Some(err), !.errorAge = 0,
              !.fetchStatus = "idle", !.attempt = "none",
              !.sent = Null, !.calls = 0,
              !.isRetryCancelled = FALSE,
              !.failureCount = 0, !.failureReason = Null,
              !.gcTimer = ScheduleGcAfterFetch(e)]

\* A retryer that compares the failure count with <= instead of <
Fail_mutant(q, e, err) ==
    IF e.isRetryCancelled \/ ~(e.failureCount <= Options(q).retry)
    THEN SettleError(e, err)
    ELSE [e EXCEPT !.attempt = "retryWait",
                   !.failureCount = e.failureCount + 1,
                   !.failureReason = Some(err)]

\* Retryer: a rejected attempt is retried after the retry delay while
\* failureCount < retry and retries are not cancelled, else it is the
\* error of the query
Fail(q, e, err) ==
    IF e.isRetryCancelled \/ ~(e.failureCount < Options(q).retry)
    THEN SettleError(e, err)
    ELSE [e EXCEPT !.attempt = "retryWait",
                   !.failureCount = e.failureCount + 1,
                   !.failureReason = Some(err)]

\* The settled promise of the query function reaches the query
Settle(q, e, r) ==
    IF r.settled = "fulfilled" THEN Succeed(e, r.value[1]) ELSE Fail(q, e, r.error[1])

\* A retry delay that never resumes the retryer
AfterRetryDelay_mutant(e) == e

\* After the retry delay: run the query function again, or give up if the
\* retries were cancelled meanwhile
AfterRetryDelay(e) ==
    IF e.isRetryCancelled
    THEN SettleError(e, e.failureReason[1])
    ELSE [e EXCEPT !.attempt = "calling", !.failureReason = Null, !.calls = e.calls + 1]

\* isFetching taken for isLoading
IsLoading_mutant(e) == e.fetchStatus = "fetching"

\* What the hook returns to the component observing query e
IsLoading(e) == e.status = "pending" /\ e.fetchStatus = "fetching"

\* AggregateImpact / ImpactAnalysis: the branch rendered
Render(e) ==
    IF IsLoading(e) THEN "loading"
    ELSE IF e.error # Null THEN "error"
    ELSE IF e.data = Null THEN "empty"
    ELSE "success"

-----------------------------------------------------------------------------
(* Network events the calculations are checked with *)

NoBody == [parses |-> FALSE, value |-> Null]

ResponseEvent(status, body) == [type |-> "response", status |-> status, body |-> body]
NetworkFailure == [type |-> "network_error", status |-> 0, body |-> NoBody]
Abort == [type |-> "abort", status |-> 0, body |-> NoBody]

\* What can come back for a request with the given body
QueryEvents(sent) ==
    { ResponseEvent(200, [parses |-> TRUE, value |-> ResultFor(sent)]),
      ResponseEvent(500, [parses |-> TRUE, value |-> << <<"detail", "Dataset not loaded">> >>]) }

\* The API client is not being exercised on its own
NoInvocation == [op |-> "none", event |-> Abort, result |-> Null, requests |-> <<>>]

-----------------------------------------------------------------------------
(* Home and its children *)

Init ==
    /\ form = InitialForm
    /\ calculated = InitialForm
    /\ calculationTriggered = FALSE
    /\ activeTab = "impact"
    /\ cache = [q \in Queries |-> <<>>]
    /\ observer = [q \in Queries |-> Null]
    /\ navigations = 0
    /\ unhandled = FALSE
    /\ client = NoInvocation
    /\ lastSubscribe = "none"
    /\ view = Null

\* An edit that sends the page back to "Get Started"
setCtcAmount_reset_mutant(v) ==
    /\ v # Get(form.reformParams, "ctc_amount")
    /\ form' = [form EXCEPT !.reformParams = Spread(form.reformParams, "ctc_amount", v)]
    /\ calculationTriggered' = FALSE
    /\ lastSubscribe' = "none"
    /\ UNCHANGED <<calculated, activeTab, cache, observer,
                   navigations, unhandled, client, view>>

\* The CTC amount input bound to the snapshot as well as to the live form
setCtcAmount_mutant(v) ==
    /\ v # Get(form.reformParams, "ctc_amount")
    /\ form' = [form EXCEPT !.reformParams = Spread(form.reformParams, "ctc_amount", v)]
    /\ calculated' = form'
    /\ lastSubscribe' = "none"
    /\ UNCHANGED <<calculationTriggered, activeTab, cache, observer,
                   navigations, unhandled, client, view>>

\* HouseholdForm: CTC amount input
setCtcAmount(v) ==
    /\ v # Get(form.reformParams, "ctc_amount")
    /\ form' = [form EXCEPT !.reformParams = Spread(form.reformParams, "ctc_amount", v)]
    /\ lastSubscribe' = "none"
    /\ UNCHANGED <<calculated, calculationTriggered, activeTab, cache, observer,
                   navigations, unhandled, client, view>>

\* The component of query q is mounted
Observed(q) == calculationTriggered /\ TabQuery(activeTab) = q

\* The query the mounted component of q observes
CurrentQuery(q) == cache[q][observer[q][1]]

\* History: what the observer of q finds when it subscribes to key k
Found(q, k) ==
    IF observer[q] = Some(k) THEN "none"
    ELSE IF k \notin DOMAIN cache[q] THEN "new"
    ELSE IF cache[q][k].fetchStatus = "fetching" THEN "fetching"
    ELSE IF cache[q][k].status = "error" THEN "error"
    ELSE IF IsStale(q, cache[q][k]) THEN "stale"
    ELSE "fresh"

\* Home: handleCalculate, and the render that follows it: the mounted tab
\* component gets its props from the new snapshot
handleCalculate ==
    /\ ButtonEnabled(calculationTriggered, form, calculated)
    /\ navigations < MaxNavigations
    /\ navigations' = navigations + 1
    /\ calculationTriggered' = TRUE
    /\ calculated' = form
    /\ LET q == TabQuery(activeTab)
           k == QueryKey(q, form)
       IN /\ cache' = [cache EXCEPT ![q] =
                         IF observer[q] # Null
                         THEN Switch(q, cache[q], observer[q][1], k, QueryFnBody(q, form))
                         ELSE Observe(q, cache[q], k, QueryFnBody(q, form))]
          /\ observer' = [observer EXCEPT ![q] = Some(k)]
          /\ lastSubscribe' = Found(q, k)
    /\ UNCHANGED <<form, activeTab, unhandled, client, view>>

\* Home: a tab button; the component of the old tab unmounts and that of
\* the new tab mounts
setActiveTab(tab) ==
    /\ calculationTriggered
    /\ tab # activeTab
    /\ navigations < MaxNavigations
    /\ navigations' = navigations + 1
    /\ activeTab' = tab
    /\ LET old == TabQuery(activeTab)
           new == TabQuery(tab)
           k == QueryKey(new, calculated)
       IN /\ cache' = [cache EXCEPT
                         ![old] = Unobserve(old, cache[old], observer[old][1]),
                         ![new] = Observe(new, cache[new], k, QueryFnBody(new, calculated))]
          /\ observer' = [observer EXCEPT ![old] = Null, ![new] = Some(k)]
          /\ lastSubscribe' = Found(new, k)
    /\ UNCHANGED <<form, calculated, calculationTriggered, unhandled, client, view>>

-----------------------------------------------------------------------------
(* The environment: the backend, the timers, the clock *)

Escapes(q, e0, e1) ==
    /\ Options(q).throwOnError
    /\ e1.status = "error" /\ e1.fetchStatus = "idle" /\ e0.fetchStatus = "fetching"
    /\ e1.observers > 0

\* The outstanding request of query (q, k) is answered, or fails in transit
Respond(q, k, ev) ==
    /\ cache[q][k].attempt = "calling"
    /\ LET e == cache[q][k]
           e1 == Settle(q, e, ApiCall(QueryFnOperation(q), ev))
       IN /\ cache' = [cache EXCEPT ![q][k] = e1]
          /\ unhandled' = (unhandled \/ Escapes(q, e, e1))
    /\ UNCHANGED <<form, calculated, calculationTriggered, activeTab, observer,
                   navigations, client, view>>
    /\ lastSubscribe' = "none"

\* fetchWithTimeout: no response within DEFAULT_TIMEOUT, the deadline timer
\* runs controller.abort()
Timeout(q, k) ==
    /\ k \in DOMAIN cache[q]
    /\ cache[q][k].attempt = "calling"
    /\ LET e == cache[q][k]
           e1 == Settle(q, e, ApiCall(QueryFnOperation(q), Abort))
       IN /\ cache' = [cache EXCEPT ![q][k] = e1]
          /\ unhandled' = (unhandled \/ Escapes(q, e, e1))
    /\ UNCHANGED <<form, calculated, calculationTriggered, activeTab, observer,
                   navigations, client, view>>
    /\ lastSubscribe' = "none"

\* Retryer: the retry delay is over
RetryTimer(q, k) ==
    /\ k \in DOMAIN cache[q]
    /\ cache[q][k].attempt = "retryWait"
    /\ LET e == cache[q][k]
           e1 == AfterRetryDelay(e)
       IN /\ cache' = [cache EXCEPT ![q][k] = e1]
          /\ unhandled' = (unhandled \/ Escapes(q, e, e1))
    /\ UNCHANGED <<form, calculated, calculationTriggered, activeTab, observer,
                   navigations, client, view>>
    /\ lastSubscribe' = "none"

\* The longest a fetch can last: every attempt runs into the deadline
\* (the default retry delay is 1000 * 2^failureCount ms, here 1000 ms)
MaxFetchDuration(q) ==
    (Options(q).retry + 1) * DEFAULT_TIMEOUT + Options(q).retry * 1000

\* Ages are counted in whole ticks.  A fetch that cannot outlast a tick
\* settles before the next tick.
SettlesWithinTick(q, e) ==
    e.fetchStatus = "fetching" /\ MaxFetchDuration(q) <= MsPerTick

\* One query after MsPerTick more milliseconds
Aged(q, e) ==
    [e EXCEPT !.dataAge = IF e.data # Null
                          THEN Min(e.dataAge + MsPerTick, Options(q).staleTime)
                          ELSE e.dataAge,
              !.errorAge = IF e.error # Null
                           THEN Min(e.errorAge + MsPerTick, Options(q).staleTime)
                           ELSE e.errorAge,
              !.gcTimer = IF e.gcTimer = Null THEN Null
                          ELSE IF e.gcTimer[1] + MsPerTick >= Options(q).gcTime THEN Null
                          ELSE Some(e.gcTimer[1] + MsPerTick)]

\* Removable: the gc timer fires; optionalRemove drops the query if it has
\* no observer and is not fetching
Collected(q, e) ==
    /\ e.gcTimer # Null
    /\ e.gcTimer[1] + MsPerTick >= Options(q).gcTime
    /\ e.observers = 0
    /\ e.fetchStatus = "idle"

Tick ==
    /\ \A q \in Queries : \A k \in DOMAIN cache[q] : ~SettlesWithinTick(q, cache[q][k])
    /\ cache' = [q \in Queries |->
                   [k \in {x \in DOMAIN cache[q] : ~Collected(q, cache[q][x])} |->
                       Aged(q, cache[q][k])]]
    /\ cache' # cache
    /\ lastSubscribe' = "none"
    /\ UNCHANGED <<form, calculated, calculationTriggered, activeTab, observer,
                   navigations, unhandled, client, view>>

Next ==
    \/ \E v \in CtcAmounts : setCtcAmount(v)
    \/ handleCalculate
    \/ \E tab \in {"impact", "aggregate"} : setActiveTab(tab)
    \/ \E q \in Queries : \E k \in DOMAIN cache[q] :
          /\ cache[q][k].attempt = "calling"
          /\ \E ev \in QueryEvents(cache[q][k].sent[1]) : Respond(q, k, ev)
    \/ \E q \in Queries : \E k \in DOMAIN cache[q] : Timeout(q, k)
    \/ \E q \in Queries : \E k \in DOMAIN cache[q] : RetryTimer(q, k)
    \/ Tick

Spec == Init /\ [][Next]_vars

\* Every key a query can be asked for
KeySpace ==
    [q \in Queries |->
        { QueryKey(q, [InitialForm EXCEPT
                         !.reformParams = Spread(DefaultReformParams, "ctc_amount", v)]) :
            v \in CtcAmounts }]

AllKeys(q) == KeySpace[q]

\* Timers fire and time passes: a request that is not answered runs into
\* its deadline, a retry delay ends, and the clock advances
FairSpec ==
    /\ Spec
    /\ \A q \in Queries : \A k \in AllKeys(q) :
          WF_vars(Timeout(q, k)) /\ WF_vars(RetryTimer(q, k))
    /\ WF_vars(Tick)

-----------------------------------------------------------------------------
(* The API client on its own: one invocation of one operation, with what   *)
(* the network does to its fetch                                           *)

ApiEvents ==
    { ResponseEvent(status, body) : status \in Statuses, body \in Bodies }
        \cup {NetworkFailure, Abort}

InitApi ==
    /\ form = InitialForm
    /\ calculated = InitialForm
    /\ calculationTriggered = FALSE
    /\ activeTab = "impact"
    /\ cache = [q \in Queries |-> <<>>]
    /\ observer = [q \in Queries |-> Null]
    /\ navigations = 0
    /\ unhandled = FALSE
    /\ client \in [op : Operations, event : ApiEvents, result : {Null}, requests : {<<>>}]
    /\ lastSubscribe = "none"
    /\ view = Null

\* The promise of the operation settles
ApiInvoke ==
    /\ client.result = Null
    /\ client' = [client EXCEPT !.result = Some(ApiCall(client.op, client.event)),
                                !.requests = ApiRequests(client.op, client.event)]
    /\ UNCHANGED <<form, calculated, calculationTriggered, activeTab, cache, observer,
                   navigations, unhandled, lastSubscribe, view>>

NextApi == ApiInvoke

SpecApi == InitApi /\ [][NextApi]_vars

-----------------------------------------------------------------------------
(* Home and HouseholdForm on their own: the inputs of the form and the     *)
(* Calculate button, the queries left aside                                *)

\* Most dependents asked for in the count input
MaxDependents == 2

\* What is typed into the inputs; the min and max attributes of an input do
\* not confine what onChange delivers
Incomes == {50000, 0 - 1, Infinity}

SpouseAges == {35, 0}

DependentAgeValues == {5, 30}

DependentCounts == (0 - 1) .. MaxDependents

ThresholdValues == {0, 0 - 100}

\* Array.prototype.splice(start) with one argument: what is left of the
\* array.  A negative start counts from the end.
Splice(a, start) ==
    LET from == IF start < 0
                THEN (IF Len(a) + start < 0 THEN 0 ELSE Len(a) + start)
                ELSE Min(start, Len(a))
    IN SubSeq(a, 1, from)

\* while (currentAges.length < count) currentAges.push(5)
RECURSIVE PushDefaultAge(_, _)
PushDefaultAge(a, count) ==
    IF Len(a) < count THEN PushDefaultAge(Append(a, 5), count) ELSE a

\* New dependents put in front of the list
RECURSIVE NewDependentAges_mutant(_, _)
NewDependentAges_mutant(dependentAges, count) ==
    IF count > Len(dependentAges)
    THEN NewDependentAges_mutant(<<5>> \o dependentAges, count)
    ELSE Splice(dependentAges, count)

\* handleDependentCountChange: the list handed to setDependentAges
NewDependentAges(dependentAges, count) ==
    IF count > Len(dependentAges)
    THEN PushDefaultAge(dependentAges, count)
    ELSE Splice(dependentAges, count)

\* What an input of the form leaves alone
FormFrame ==
    UNCHANGED <<calculated, calculationTriggered, activeTab, cache, observer,
                navigations, unhandled, client, lastSubscribe, view>>

\* HouseholdForm: income input, setIncome(parseNumber(e.target.value))
setIncome(v) ==
    /\ v # form.income
    /\ form' = [form EXCEPT !.income = v]
    /\ FormFrame

\* The spouse age of handleMarriedChange kept when the box is unchecked
MarriedSpouseAge_mutant(value, ageSpouse) == IF value THEN Some(35) ELSE ageSpouse

\* handleMarriedChange: what it hands to setAgeSpouse
MarriedSpouseAge(value, ageSpouse) == IF value THEN Some(35) ELSE Null

\* HouseholdForm: married checkbox
handleMarriedChange(value) ==
    /\ value # form.married
    /\ form' = [form EXCEPT !.married = value,
                            !.ageSpouse = MarriedSpouseAge(value, form.ageSpouse)]
    /\ FormFrame

\* HouseholdForm: spouse age input, rendered only while married
setAgeSpouse(v) ==
    /\ form.married
    /\ Some(v) # form.ageSpouse
    /\ form' = [form EXCEPT !.ageSpouse = Some(v)]
    /\ FormFrame

\* HouseholdForm: dependents count input (it shows dependentAges.length)
handleDependentCountChange(count) ==
    /\ count # Len(form.dependentAges)
    /\ form' = [form EXCEPT !.dependentAges = NewDependentAges(form.dependentAges, count)]
    /\ FormFrame

\* HouseholdForm: the age input of dependent number index
handleDependentAgeChange(index, age) ==
    /\ index \in DOMAIN form.dependentAges
    /\ age # form.dependentAges[index]
    /\ form' = [form EXCEPT !.dependentAges = [@ EXCEPT ![index] = age]]
    /\ FormFrame

\* The table replaced by the edited entry alone
SpreadThreshold_mutant(reformParams, table, thresholds, status, v) ==
    Spread(reformParams, table, << <<status, v>> >>)

\* {...reformParams, [table]: {...thresholds, [status]: v}}
SpreadThreshold(reformParams, table, thresholds, status, v) ==
    Spread(reformParams, table, Spread(thresholds, status, v))

\* HouseholdForm: a CTC phase-out threshold input
setCtcThreshold(status, v) ==
    /\ v # Get(Get(form.reformParams, "ctc_phaseout_thresholds"), status)
    /\ form' = [form EXCEPT !.reformParams =
                   SpreadThreshold(@, "ctc_phaseout_thresholds",
                                   Get(@, "ctc_phaseout_thresholds"), status, v)]
    /\ FormFrame

\* reformParams.exemption_phaseout_thresholds || {SINGLE: 0, ...}
ExemptionThresholdsOrZero(reformParams) ==
    IF Get(reformParams, "exemption_phaseout_thresholds") = Null
    THEN ZeroThresholds
    ELSE Get(reformParams, "exemption_phaseout_thresholds")

\* HouseholdForm: an exemption phase-out threshold input
setExemptionThreshold(status, v) ==
    /\ v # Get(ExemptionThresholdsOrZero(form.reformParams), status)
    /\ form' = [form EXCEPT !.reformParams =
                   SpreadThreshold(@, "exemption_phaseout_thresholds",
                                   ExemptionThresholdsOrZero(@), status, v)]
    /\ FormFrame

\* The threshold inputs that are edited
CtcThresholdInputs == {"SINGLE"}

ExemptionThresholdInputs == {"JOINT"}

\* A handleCalculate that does not snapshot the income
onCalculate_mutant ==
    /\ ButtonEnabled(calculationTriggered, form, calculated)
    /\ calculationTriggered' = TRUE
    /\ calculated' = [form EXCEPT !.income = calculated.income]
    /\ UNCHANGED <<form, activeTab, cache, observer, navigations, unhandled, client,
                   lastSubscribe, view>>

\* HouseholdForm: the Calculate button, onClick={onCalculate}: the state
\* updates of Home.handleCalculate
onCalculate ==
    /\ ButtonEnabled(calculationTriggered, form, calculated)
    /\ calculationTriggered' = TRUE
    /\ calculated' = form
    /\ UNCHANGED <<form, activeTab, cache, observer, navigations, unhandled, client,
                   lastSubscribe, view>>

NextForm ==
    \/ \E v \in Incomes : setIncome(v)
    \/ \E value \in BOOLEAN : handleMarriedChange(value)
    \/ \E v \in SpouseAges : setAgeSpouse(v)
    \/ \E count \in DependentCounts : handleDependentCountChange(count)
    \/ \E index \in 1 .. MaxDependents + 1 : \E age \in DependentAgeValues :
          handleDependentAgeChange(index, age)
    \/ \E status \in CtcThresholdInputs : \E v \in ThresholdValues :
          setCtcThreshold(status, v)
    \/ \E status \in ExemptionThresholdInputs : \E v \in ThresholdValues :
          setExemptionThreshold(status, v)
    \/ onCalculate

SpecForm == Init /\ [][NextForm]_vars

\* The request the ImpactAnalysis component builds from the snapshot
SubmittedRequest == HouseholdRequest(calculated)

-----------------------------------------------------------------------------
(* HouseholdForm: the Refundability select of the CTC panel                *)

\* Credit amounts are 2, 4, ..., 2 * MaxHalfAmount, so that the half of an
\* amount is a whole number
MaxHalfAmount == 5

RefundAmounts == { 2 * n : n \in 1 .. MaxHalfAmount }

RefundCaps == (0 - 1) .. (2 * MaxHalfAmount + 1)

\* A cap above the credit amount taken for full refundability
RefundabilityValue_mutant(reformParams) ==
    IF Get(reformParams, "ctc_refundability_cap") = 0 THEN "non-refundable"
    ELSE IF Get(reformParams, "ctc_refundability_cap") >= Get(reformParams, "ctc_amount")
         THEN "fully-refundable"
         ELSE "partially-refundable"

\* The value attribute of the select
RefundabilityValue(reformParams) ==
    IF Get(reformParams, "ctc_refundability_cap") = 0 THEN "non-refundable"
    ELSE IF Get(reformParams, "ctc_refundability_cap") = Get(reformParams, "ctc_amount")
         THEN "fully-refundable"
         ELSE "partially-refundable"

RefundabilityOptions == {"non-refundable", "partially-refundable", "fully-refundable"}

\* An onChange that stores the whole credit amount for "partially"
RefundabilityCap_mutant(reformParams, value) ==
    IF value = "non-refundable" THEN 0
    ELSE Get(reformParams, "ctc_amount")

\* The cap the onChange of the select stores
RefundabilityCap(reformParams, value) ==
    IF value = "non-refundable" THEN 0
    ELSE IF value = "fully-refundable" THEN Get(reformParams, "ctc_amount")
    ELSE Get(reformParams, "ctc_amount") \div 2

InitRefund ==
    /\ \E amount \in RefundAmounts : \E cap \in RefundCaps :
          form = [InitialForm EXCEPT !.reformParams =
                     Spread(Spread(DefaultReformParams, "ctc_amount", amount),
                            "ctc_refundability_cap", cap)]
    /\ calculated = InitialForm
    /\ calculationTriggered = FALSE
    /\ activeTab = "impact"
    /\ cache = [q \in Queries |-> <<>>]
    /\ observer = [q \in Queries |-> Null]
    /\ navigations = 0
    /\ unhandled = FALSE
    /\ client = NoInvocation
    /\ lastSubscribe = "none"
    /\ view = Null

\* The CTC panel is opened (or closed) and the select rendered
setShowCTCCustomization ==
    /\ view' = IF view = Null THEN Some(RefundabilityValue(form.reformParams)) ELSE Null
    /\ UNCHANGED <<form, calculated, calculationTriggered, activeTab, cache, observer,
                   navigations, unhandled, client, lastSubscribe>>

\* An option of the select is chosen; the form renders again
onRefundabilityChange(value) ==
    /\ view # Null
    /\ view # Some(value)
    /\ form' = [form EXCEPT !.reformParams =
                   Spread(@, "ctc_refundability_cap", RefundabilityCap(@, value))]
    /\ view' = Some(RefundabilityValue(form'.reformParams))
    /\ UNCHANGED <<calculated, calculationTriggered, activeTab, cache, observer,
                   navigations, unhandled, client, lastSubscribe>>

NextRefund ==
    \/ setShowCTCCustomization
    \/ \E value \in RefundabilityOptions : onRefundabilityChange(value)

SpecRefund == InitRefund /\ [][NextRefund]_vars

-----------------------------------------------------------------------------
(* Home.hasChanges on its own: a live input and a submitted input of the   *)
(* types of Home's state, among them threshold tables whose keys were      *)
(* inserted in another order                                               *)

\* The table of zeros with JOINT inserted before SINGLE
ReorderedZeroThresholds ==
    << <<"JOINT", 0>>, <<"SINGLE", 0>>, <<"HEAD_OF_HOUSEHOLD", 0>>,
       <<"SURVIVING_SPOUSE", 0>>, <<"SEPARATE", 0>> >>

ChangeInputs ==
    { [InitialForm EXCEPT
          !.dependentAges = d,
          !.income = i,
          !.reformParams = Spread(DefaultReformParams, "ctc_phaseout_thresholds", t)] :
        d \in {<<5>>, <<5, 30>>, <<30, 5>>},
        i \in Incomes,
        t \in {ZeroThresholds, ReorderedZeroThresholds,
               Spread(ZeroThresholds, "SINGLE", 0 - 100)} }

InitChange ==
    /\ form \in ChangeInputs
    /\ calculated \in ChangeInputs
    /\ calculationTriggered = TRUE
    /\ activeTab = "impact"
    /\ cache = [q \in Queries |-> <<>>]
    /\ observer = [q \in Queries |-> Null]
    /\ navigations = 0
    /\ unhandled = FALSE
    /\ client = NoInvocation
    /\ lastSubscribe = "none"
    /\ view = Null

\* Home renders HouseholdForm with hasChanges, and the button with its
\* disabled attribute
renderCalculateButton ==
    /\ view = Null
    /\ view' = Some([hasChanges |-> hasChanges(form, calculated),
                     disabled |-> ~ButtonEnabled(calculationTriggered, form, calculated)])
    /\ UNCHANGED <<form, calculated, calculationTriggered, activeTab, cache, observer,
                   navigations, unhandled, client, lastSubscribe>>

NextChange == renderCalculateButton

SpecChange == InitChange /\ [][NextChange]_vars

-----------------------------------------------------------------------------
(* ImpactAnalysis: what it renders of the benefit_at_income of a result    *)

\* Amounts of a result run from -1 to MaxBenefit
MaxBenefit == 2

BenefitValues == (0 - 1) .. MaxBenefit

\* benefit_at_income of a HouseholdImpactResponse
BenefitAtIncome(difference, ctc_component, exemption_tax_benefit) ==
    << <<"baseline", 0>>, <<"reform", difference>>, <<"difference", difference>>,
       <<"ctc_component", ctc_component>>,
       <<"exemption_tax_benefit", exemption_tax_benefit>> >>

\* `$${value.toLocaleString('en-US', {minimumFractionDigits: 2, ...})}`
formatCurrency(value) == [text |-> "$", number |-> value, fractionDigits |-> 2]

\* `${x > 0 ? '+' : ''}${formatCurrency(x)}`
Signed(x) == [sign |-> IF x > 0 THEN "+" ELSE "", amount |-> formatCurrency(x)]

\* The "Change in Net Income" box: the elements rendered, the headline and
\* the rows of the breakdown
PersonalImpact(benefitData) ==
    LET difference == Get(benefitData, "difference")
        ctc_component == Get(benefitData, "ctc_component")
        exemption_tax_benefit == Get(benefitData, "exemption_tax_benefit")
    IN [elements |-> {"headline"} \cup (IF difference # 0 THEN {"breakdown"} ELSE {}),
        headline |-> IF difference # 0
                     THEN [text |-> Signed(difference), suffix |-> "/year"]
                     ELSE [text |-> [sign |-> "", amount |-> formatCurrency(0)],
                           suffix |-> "/year"],
        rows |-> IF difference # 0
                 THEN (IF ctc_component # 0
                       THEN << <<"RI CTC", Signed(ctc_component)>> >> ELSE <<>>)
                      \o (IF exemption_tax_benefit # 0
                          THEN << <<"RI Dependent Exemption", Signed(exemption_tax_benefit)>> >>
                          ELSE <<>>)
                 ELSE <<>>]

\* The household operation has fulfilled with a result
InitImpact ==
    /\ form = InitialForm
    /\ calculated = InitialForm
    /\ calculationTriggered = TRUE
    /\ activeTab = "impact"
    /\ cache = [q \in Queries |-> <<>>]
    /\ observer = [q \in Queries |-> Null]
    /\ navigations = 0
    /\ unhandled = FALSE
    /\ \E d \in BenefitValues, c \in BenefitValues, x \in BenefitValues :
          LET ev == ResponseEvent(200, [parses |-> TRUE,
                       value |-> << <<"benefit_at_income", BenefitAtIncome(d, c, x)>> >>])
          IN client = [op |-> "calculateHouseholdImpact", event |-> ev,
                       result |-> Some(ApiCall("calculateHouseholdImpact", ev)),
                       requests |-> ApiRequests("calculateHouseholdImpact", ev)]
    /\ lastSubscribe = "none"
    /\ view = Null

\* The data ImpactAnalysis gets from useHouseholdImpact
ImpactData == client.result[1].value[1]

\* ImpactAnalysis renders the result
renderImpactAnalysis ==
    /\ view = Null
    /\ client.result # Null
    /\ client.result[1].settled = "fulfilled"
    /\ view' = Some(PersonalImpact(Get(ImpactData, "benefit_at_income")))
    /\ UNCHANGED <<form, calculated, calculationTriggered, activeTab, cache, observer,
                   navigations, unhandled, client, lastSubscribe>>

NextImpact == renderImpactAnalysis

SpecImpact == InitImpact /\ [][NextImpact]_vars

-----------------------------------------------------------------------------
(* ImpactAnalysis: the series it charts of a household result              *)

\* A result samples at most MaxSamples incomes
MaxSamples == 3

\* Credit amounts of a sample run from 0 to MaxCredit
MaxCredit == 1

\* The incomes sampled, in steps of one
IncomeRanges == {[i \in 1 .. n |-> i - 1] : n \in 1 .. MaxSamples}

\* x_axis_max lies below, within or above the incomes sampled
AxisMaxima == (0 - 1) .. MaxSamples

\* A HouseholdImpactResponse: the sampled series and the point at the
\* household's income
HouseholdImpactResponse(income_range, ctc_baseline_range, ctc_reform_range, x_axis_max) ==
    << <<"income_range", income_range>>,
       <<"ctc_baseline_range", ctc_baseline_range>>,
       <<"ctc_reform_range", ctc_reform_range>>,
       <<"benefit_at_income", BenefitAtIncome(0, 0, 0)>>,
       <<"x_axis_max", x_axis_max>> >>

\* A chartData that drops the point at x_axis_max itself
chartData_mutant(data) ==
    LET income_range == Get(data, "income_range")
        mapped == [i \in DOMAIN income_range |->
                     [income |-> income_range[i],
                      baseline |-> Get(data, "ctc_baseline_range")[i],
                      reform |-> Get(data, "ctc_reform_range")[i],
                      benefit |-> Get(data, "ctc_reform_range")[i]
                                    - Get(data, "ctc_baseline_range")[i]]]
        keep(d) == d.income < Get(data, "x_axis_max")
    IN SelectSeq(mapped, keep)

\* ImpactAnalysis: chartData, income_range mapped to points and filtered
\* to the incomes up to x_axis_max
chartData(data) ==
    LET income_range == Get(data, "income_range")
        mapped == [i \in DOMAIN income_range |->
                     [income |-> income_range[i],
                      baseline |-> Get(data, "ctc_baseline_range")[i],
                      reform |-> Get(data, "ctc_reform_range")[i],
                      benefit |-> Get(data, "ctc_reform_range")[i]
                                    - Get(data, "ctc_baseline_range")[i]]]
        keep(d) == d.income <= Get(data, "x_axis_max")
    IN SelectSeq(mapped, keep)

\* <LineChart data={chartData}> with <Line dataKey="benefit">, beside the
\* personal impact
ImpactChart(data) ==
    [chartData |-> chartData(data),
     line |-> [i \in DOMAIN chartData(data) |->
                 [x |-> chartData(data)[i].income, y |-> chartData(data)[i].benefit]],
     personal |-> PersonalImpact(Get(data, "benefit_at_income"))]

\* The household operation has fulfilled with a result
InitChart ==
    /\ form = InitialForm
    /\ calculated = InitialForm
    /\ calculationTriggered = TRUE
    /\ activeTab = "impact"
    /\ cache = [q \in Queries |-> <<>>]
    /\ observer = [q \in Queries |-> Null]
    /\ navigations = 0
    /\ unhandled = FALSE
    /\ \E income_range \in IncomeRanges, x_axis_max \in AxisMaxima :
       \E ctc_baseline_range \in [DOMAIN income_range -> 0 .. MaxCredit],
          ctc_reform_range \in [DOMAIN income_range -> 0 .. MaxCredit] :
          LET ev == ResponseEvent(200, [parses |-> TRUE,
                       value |-> HouseholdImpactResponse(income_range,
                                    ctc_baseline_range, ctc_reform_range, x_axis_max)])
          IN client = [op |-> "calculateHouseholdImpact", event |-> ev,
                       result |-> Some(ApiCall("calculateHouseholdImpact", ev)),
                       requests |-> ApiRequests("calculateHouseholdImpact", ev)]
    /\ lastSubscribe = "none"
    /\ view = Null

\* ImpactAnalysis renders the result with its chart
renderImpactChart ==
    /\ view = Null
    /\ client.result # Null
    /\ client.result[1].settled = "fulfilled"
    /\ view' = Some(ImpactChart(ImpactData))
    /\ UNCHANGED <<form, calculated, calculationTriggered, activeTab, cache, observer,
                   navigations, unhandled, client, lastSubscribe>>

NextChart == renderImpactChart

SpecChart == InitChart /\ [][NextChart]_vars

-----------------------------------------------------------------------------
(* AggregateImpact: what it renders of an aggregate result                 *)

\* Rates of a cohort under the baseline and under the reform
BaselineRates == {0, 50, 100}

ReformRates == {0, 5, 100, 150}

\* The percent change of a cohort as the backend reports it: the change
\* relative to the baseline, and 0 for a baseline of 0
PercentChange(baseline, reform) ==
    IF baseline = 0 THEN 0 ELSE ((reform - baseline) * 100) \div baseline

\* Figures of a bracket run from -2 to MaxBracket
MaxBracket == 1

BracketValues == (0 - 2) .. MaxBracket

BracketLabels == <<"$0-$50k", "$50k+">>

IncomeBracket(bracket, total_cost, avg_benefit) ==
    << <<"bracket", bracket>>, <<"beneficiaries", 10>>,
       <<"total_cost", total_cost>>, <<"avg_benefit", avg_benefit>> >>

\* The four cohorts of an AggregateImpactResponse
Cohorts == <<"poverty", "child_poverty", "deep_poverty", "deep_child_poverty">>

\* The poverty fields of a cohort
CohortFields(cohort, baseline, reform) ==
    << <<cohort \o "_baseline_rate", baseline>>,
       <<cohort \o "_reform_rate", reform>>,
       <<cohort \o "_rate_change", reform - baseline>>,
       <<cohort \o "_percent_change", PercentChange(baseline, reform)>> >>

\* An AggregateImpactResponse: the poverty fields of the four cohorts and
\* the breakdown by income bracket
AggregateImpactResponse(rates, brackets) ==
    CohortFields(Cohorts[1], rates[1][1], rates[1][2])
        \o CohortFields(Cohorts[2], rates[2][1], rates[2][2])
        \o CohortFields(Cohorts[3], rates[1][1], rates[2][2])
        \o CohortFields(Cohorts[4], rates[2][1], rates[1][2])
        \o << <<"by_income_bracket", brackets>> >>

Abs(x) == IF x < 0 THEN 0 - x ELSE x

\* value.toLocaleString('en-US', {minimumFractionDigits: 2, ...}) and
\* value.toFixed(digits): the numeral of the value with its sign
Numeral(value, fractionDigits) ==
    [negative |-> value < 0, magnitude |-> Abs(value), fractionDigits |-> fractionDigits]

\* The percent card showing the absolute change of the rate
PercentCard_mutant(data, cohort) ==
    [sign |-> IF Get(data, cohort \o "_rate_change") >= 0 THEN "+" ELSE "",
     text |-> Numeral(Get(data, cohort \o "_rate_change"), 2),
     unit |-> "%"]

\* {x >= 0 ? '+' : ''}{x.toFixed(2)}% with x the percent_change of the cohort
PercentCard(data, cohort) ==
    [sign |-> IF Get(data, cohort \o "_percent_change") >= 0 THEN "+" ELSE "",
     text |-> Numeral(Get(data, cohort \o "_percent_change"), 2),
     unit |-> "%"]

\* A formatter that shows a loss as nothing
formatCurrencyWithSign_mutant(value) ==
    IF value >= 0
    THEN [sign |-> "+", currency |-> "$", text |-> Numeral(Abs(value), 2)]
    ELSE [sign |-> "+", currency |-> "$", text |-> Numeral(0, 2)]

\* formatCurrencyWithSign
formatCurrencyWithSign(value) ==
    IF value >= 0
    THEN [sign |-> "+", currency |-> "$", text |-> Numeral(Abs(value), 2)]
    ELSE [sign |-> "-", currency |-> "$", text |-> Numeral(Abs(value), 2)]

\* <BarChart data={data.by_income_bracket}> with <Bar dataKey="avg_benefit">:
\* one bar per bracket, its value, its colour and its tooltip
BracketChart(by_income_bracket) ==
    [i \in DOMAIN by_income_bracket |->
        [bracket |-> Get(by_income_bracket[i], "bracket"),
         value |-> Get(by_income_bracket[i], "avg_benefit"),
         fill |-> IF Get(by_income_bracket[i], "avg_benefit") >= 0
                  THEN "#319795" ELSE "#64748B",
         tooltip |-> formatCurrencyWithSign(Get(by_income_bracket[i], "avg_benefit"))]]

\* The rows of the detailed table
BracketTable(by_income_bracket) ==
    [i \in DOMAIN by_income_bracket |->
        [bracket |-> Get(by_income_bracket[i], "bracket"),
         total_cost |-> formatCurrencyWithSign(Get(by_income_bracket[i], "total_cost")),
         avg_benefit |-> formatCurrencyWithSign(Get(by_income_bracket[i], "avg_benefit"))]]

\* What AggregateImpact renders of its data
AggregateView(data) ==
    [cards |-> [i \in DOMAIN Cohorts |-> PercentCard(data, Cohorts[i])],
     chart |-> BracketChart(Get(data, "by_income_bracket")),
     table |-> BracketTable(Get(data, "by_income_bracket"))]

\* The rates and the brackets of the results considered
CohortRates ==
    { <<p, c>> : p \in BaselineRates \X ReformRates, c \in {<<0, 5>>, <<100, 150>>} }

BracketLists ==
    { << IncomeBracket(BracketLabels[1], t1, a1), IncomeBracket(BracketLabels[2], a1, a2) >> :
        t1 \in BracketValues, a1 \in BracketValues, a2 \in BracketValues }

\* The aggregate operation has fulfilled with a result
InitAggregate ==
    /\ form = InitialForm
    /\ calculated = InitialForm
    /\ calculationTriggered = TRUE
    /\ activeTab = "aggregate"
    /\ cache = [q \in Queries |-> <<>>]
    /\ observer = [q \in Queries |-> Null]
    /\ navigations = 0
    /\ unhandled = FALSE
    /\ \E rates \in CohortRates : \E brackets \in BracketLists :
          LET ev == ResponseEvent(200, [parses |-> TRUE,
                       value |-> AggregateImpactResponse(rates, brackets)])
          IN client = [op |-> "calculateAggregateImpact", event |-> ev,
                       result |-> Some(ApiCall("calculateAggregateImpact", ev)),
                       requests |-> ApiRequests("calculateAggregateImpact", ev)]
    /\ lastSubscribe = "none"
    /\ view = Null

\* The data AggregateImpact gets from useAggregateImpact
AggregateData == client.result[1].value[1]

\* AggregateImpact renders the result
renderAggregateImpact ==
    /\ view = Null
    /\ client.result # Null
    /\ client.result[1].settled = "fulfilled"
    /\ view' = Some(AggregateView(AggregateData))
    /\ UNCHANGED <<form, calculated, calculationTriggered, activeTab, cache, observer,
                   navigations, unhandled, client, lastSubscribe>>

NextAggregate == renderAggregateImpact

SpecAggregate == InitAggregate /\ [][NextAggregate]_vars

-----------------------------------------------------------------------------
(* fetchWithTimeout step by step: its controller, its deadline timer and   *)
(* the fetch it awaits.  Here client holds the invocations, one record     *)
(* each.                                                                   *)

\* Invocations of fetchWithTimeout that may overlap
MaxInvocations == 2

Invocations == 1 .. MaxInvocations

\* The deadline (timeout = DEFAULT_TIMEOUT) in steps of the clock
DeadlineTicks == 2

\* fetchWithTimeout has not been called
NotCalled ==
    [pc |-> "notCalled", timer |-> "unset", aborted |-> FALSE, fetch |-> "none",
     elapsed |-> 0, outcome |-> "none"]

\* A finally that is skipped when the fetch rejects: clearTimeout after the
\* await, inside the try
finallyClearTimeout_mutant(call) ==
    IF call.fetch = "fulfilled" /\ call.timer = "armed"
    THEN [call EXCEPT !.timer = "cleared"]
    ELSE call

\* finally { clearTimeout(timeoutId) }: a timer that has not fired is
\* cancelled; for one that has fired it is a no-op
finallyClearTimeout(call) ==
    IF call.timer = "armed" THEN [call EXCEPT !.timer = "cleared"] ELSE call

InitTimeout ==
    /\ form = InitialForm
    /\ calculated = InitialForm
    /\ calculationTriggered = FALSE
    /\ activeTab = "impact"
    /\ cache = [q \in Queries |-> <<>>]
    /\ observer = [q \in Queries |-> Null]
    /\ navigations = 0
    /\ unhandled = FALSE
    /\ client = [c \in Invocations |-> NotCalled]
    /\ lastSubscribe = "none"
    /\ view = Null

\* A settled fetch whose continuation (the rest of the async function, a
\* microtask) has not run yet
ContinuationPending == \E c \in Invocations : client[c].pc = "settled"

\* new AbortController(); setTimeout(() => controller.abort(), timeout);
\* fetch(url, {...options, signal}) up to the await
callFetchWithTimeout(c) ==
    /\ client[c].pc = "notCalled"
    /\ ~ContinuationPending
    /\ client' = [client EXCEPT ![c] =
                     [pc |-> "awaiting", timer |-> "armed", aborted |-> FALSE,
                      fetch |-> "outstanding", elapsed |-> 0, outcome |-> "none"]]
    /\ UNCHANGED <<form, calculated, calculationTriggered, activeTab, cache, observer,
                   navigations, unhandled, lastSubscribe, view>>

\* The network settles the fetch: the response arrives, or the request
\* fails (TypeError)
fetchSettles(c, how) ==
    /\ client[c].fetch = "outstanding"
    /\ ~ContinuationPending
    /\ client' = [client EXCEPT ![c] =
                     [@ EXCEPT !.fetch = how, !.pc = "settled"]]
    /\ UNCHANGED <<form, calculated, calculationTriggered, activeTab, cache, observer,
                   navigations, unhandled, lastSubscribe, view>>

\* The timer task: () => controller.abort().  An outstanding fetch rejects
\* with AbortError; on a settled fetch the signal has no effect.
abortCallback(c) ==
    /\ client[c].timer = "armed"
    /\ client[c].elapsed >= DeadlineTicks
    /\ ~ContinuationPending
    /\ client' = [client EXCEPT ![c] =
                     [@ EXCEPT !.timer = "fired",
                               !.aborted = TRUE,
                               !.fetch = IF @ = "outstanding" THEN "aborted" ELSE @,
                               !.pc = IF client[c].fetch = "outstanding"
                                      THEN "settled" ELSE @]]
    /\ UNCHANGED <<form, calculated, calculationTriggered, activeTab, cache, observer,
                   navigations, unhandled, lastSubscribe, view>>

\* After the await: return response, or the rejection propagates; the
\* finally block runs on either path
continuation(c) ==
    /\ client[c].pc = "settled"
    /\ client' = [client EXCEPT ![c] =
                     [finallyClearTimeout(@) EXCEPT
                         !.pc = IF client[c].fetch = "fulfilled" THEN "returned" ELSE "thrown",
                         !.outcome = IF client[c].fetch = "fulfilled" THEN "Response"
                                     ELSE IF client[c].fetch = "aborted" THEN "AbortError"
                                     ELSE "TypeError"]]
    /\ UNCHANGED <<form, calculated, calculationTriggered, activeTab, cache, observer,
                   navigations, unhandled, lastSubscribe, view>>

\* The clock advances by one step for every armed timer; a timer that is
\* due fires first, and a pending continuation runs first
TimePasses ==
    /\ ~ContinuationPending
    /\ \E c \in Invocations : client[c].timer = "armed"
    /\ \A c \in Invocations :
          client[c].timer = "armed" => client[c].elapsed < DeadlineTicks
    /\ client' = [c \in Invocations |->
                     IF client[c].timer = "armed"
                     THEN [client[c] EXCEPT !.elapsed = @ + 1]
                     ELSE client[c]]
    /\ UNCHANGED <<form, calculated, calculationTriggered, activeTab, cache, observer,
                   navigations, unhandled, lastSubscribe, view>>

NextTimeout ==
    \/ \E c \in Invocations : callFetchWithTimeout(c)
    \/ \E c \in Invocations : \E how \in {"fulfilled", "rejected"} : fetchSettles(c, how)
    \/ \E c \in Invocations : abortCallback(c)
    \/ \E c \in Invocations : continuation(c)
    \/ TimePasses

SpecTimeout == InitTimeout /\ [][NextTimeout]_vars

-----------------------------------------------------------------------------
(* What the claims speak about *)

\* The live input and the submitted input differ by value (no reference to
\* the order of the fields of an object)
DiffersByValue(f, c) ==
    \/ f.ageHead # c.ageHead
    \/ f.ageSpouse # c.ageSpouse
    \/ f.married # c.married
    \/ f.dependentAges # c.dependentAges
    \/ f.income # c.income
    \/ HashObj(f.reformParams) # HashObj(c.reformParams)

\* The state of the logical query shown by the active tab
QueryState ==
    IF ~calculationTriggered THEN "idle"
    ELSE IF CurrentQuery(TabQuery(activeTab)).fetchStatus = "fetching" THEN "pending"
    ELSE "settled"

\* The query function of (q, k) is invoked in this step
CallIssued(q, k) ==
    /\ k \in DOMAIN cache'[q]
    /\ cache'[q][k].calls > (IF k \in DOMAIN cache[q] THEN cache[q][k].calls ELSE 0)

\* The observer of q subscribes to key k in this step (a submission of the
\* input of k, or the tab of q being entered)
Submitted(q, k) == observer'[q] = Some(k) /\ observer[q] # Some(k)

\* The freshness window the claims name: 5 minutes
FreshnessWindow == 5 * 60 * 1000

\* A settled result that is still within the freshness window
FreshResult(e) ==
    e.status = "success" /\ e.fetchStatus = "idle" /\ e.dataAge < FreshnessWindow

\* A settled result whose freshness window has expired
StaleResult(e) ==
    e.status = "success" /\ e.fetchStatus = "idle" /\ e.dataAge >= FreshnessWindow

\* The mounted component always has its query in the cache, and is its
\* only observer
ObserverInv ==
    \A q \in Queries :
        /\ observer[q] = (IF Observed(q) THEN Some(QueryKey(q, calculated)) ELSE Null)
        /\ Observed(q) => observer[q][1] \in DOMAIN cache[q]
        /\ \A k \in DOMAIN cache[q] :
              cache[q][k].observers = (IF observer[q] = Some(k) THEN 1 ELSE 0)

-----------------------------------------------------------------------------
(* C1 *)

-----------------------------------------------------------------------------
(* C2 *)

\* C2: while a query holds a settled result that is within the freshness
\* window, no step invokes its query function, whatever is submitted or
\* whichever tab is entered; and submitting an input whose query holds no
\* result and has no fetch running invokes the query function.
C2_FreshServedFromCache ==
    [][\A q \in Queries :
          /\ \A k \in DOMAIN cache[q] :
                FreshResult(cache[q][k]) => ~CallIssued(q, k)
          /\ \A k \in DOMAIN cache'[q] :
                (Submitted(q, k) /\ k \notin DOMAIN cache[q]) => CallIssued(q, k)]_vars

\* Input A was submitted again, after another input, while its result was
\* fresh: the result is shown and no fetch is running
C2_Witness ==
    /\ Observed("aggregate")
    /\ lastSubscribe = "fresh"
    /\ FreshResult(CurrentQuery("aggregate"))
    /\ Cardinality(DOMAIN cache["aggregate"]) = 2

-----------------------------------------------------------------------------
(* C3 *)

\* C3 as stated: a settled result stays available until a new one replaces
\* it, and the refetch of an expired result is exactly one remote call.
C3_AsStated ==
    [][\A q \in Queries : \A k \in DOMAIN cache[q] :
          cache[q][k].data # Null =>
             /\ k \in DOMAIN cache'[q]
             /\ cache'[q][k].data # Null
             /\ cache'[q][k].calls <= 1]_vars

\* C3 (amended): while the query of input A is still in the cache, the next
\* submission of A after its freshness window expired starts exactly one
\* fetch, which is one remote call and at most one retry; until that fetch
\* settles the stale result stays in the query and the view shows it
\* (neither loading nor empty).
C3_StaleRefetchedOnceAndShown ==
    [][\A q \in Queries : \A k \in DOMAIN cache[q] :
          LET e == cache[q][k] IN
          /\ (StaleResult(e) /\ Submitted(q, k)) =>
                /\ CallIssued(q, k)
                /\ cache'[q][k].calls = 1
                /\ cache'[q][k].data = e.data
                /\ Render(cache'[q][k]) = "success"
          /\ (e.status = "success" /\ e.fetchStatus = "fetching") =>
                /\ k \in DOMAIN cache'[q]
                /\ cache'[q][k].fetchStatus = "fetching" =>
                      /\ cache'[q][k].calls \in {e.calls, e.calls + 1}
                      /\ cache'[q][k].calls <= 2
                      /\ cache'[q][k].data = e.data
                      /\ Render(cache'[q][k]) = "success"]_vars

\* The expired result of the submitted input is being refetched and shown
C3_Witness ==
    /\ Observed("aggregate")
    /\ lastSubscribe = "stale"
    /\ CurrentQuery("aggregate").status = "success"
    /\ CurrentQuery("aggregate").fetchStatus = "fetching"
    /\ CurrentQuery("aggregate").dataAge >= FreshnessWindow
    /\ Render(CurrentQuery("aggregate")) = "success"

-----------------------------------------------------------------------------
(* C4 *)

\* C4: last-submitted-wins.  Whatever the order of the responses, what the
\* view of a query shows belongs to the submitted input: a result shown was
\* computed for the request of the submitted input, and a request the view
\* is loading for is the request of the submitted input.
C4_LastSubmittedWins ==
    \A q \in Queries :
        Observed(q) =>
            LET e == CurrentQuery(q) IN
            /\ e.data # Null => e.data[1] = ResultFor(QueryFnBody(q, calculated))
            /\ e.sent # Null => e.sent[1] = QueryFnBody(q, calculated)

\* B was submitted while A's request was in flight, B has settled, and A's
\* request is still in flight
C4_Witness ==
    \E q \in Queries :
        /\ Observed(q)
        /\ CurrentQuery(q).data # Null
        /\ \E k \in DOMAIN cache[q] :
              /\ observer[q] # Some(k)
              /\ cache[q][k].attempt = "calling"
              /\ cache[q][k].observers = 0

-----------------------------------------------------------------------------
(* C5 *)

\* C5: no error escapes the query layer; a query that is not fetching and
\* has no data holds the error of its failed fetch; and once a calculation
\* was triggered the view is loading, error or success, never empty.
C5_FailuresSettleInErrorState ==
    /\ unhandled = FALSE
    /\ \A q \in Queries : \A k \in DOMAIN cache[q] :
          LET e == cache[q][k] IN
          /\ (e.status = "error") <=> (e.error # Null)
          /\ (e.fetchStatus = "idle" /\ e.data = Null) => e.status = "error"
    /\ \A q \in Queries :
          Observed(q) => Render(CurrentQuery(q)) \in {"loading", "error", "success"}

\* The submitted input's calculation failed and the view shows the error
C5_Witness ==
    \E q \in Queries :
        /\ Observed(q)
        /\ Render(CurrentQuery(q)) = "error"
        /\ CurrentQuery(q).error[1].name \in {"ApiError", "AbortError"}

-----------------------------------------------------------------------------
(* C6 *)

\* C6: within one fetch the query function is invoked at most twice, the
\* first attempt and one retry, and the wait for a retry follows the first
\* attempt only.
C6_AtMostOneRetry ==
    \A q \in Queries : \A k \in DOMAIN cache[q] :
        /\ cache[q][k].calls <= 2
        /\ cache[q][k].attempt = "retryWait" => cache[q][k].calls = 1

\* The one retry of a failed first attempt is running
C6_Witness ==
    \E q \in Queries : \E k \in DOMAIN cache[q] :
        cache[q][k].attempt = "calling" /\ cache[q][k].calls = 2

-----------------------------------------------------------------------------
(* C7 *)

\* C7 as stated: once the query of input A has settled in error, no step
\* within the freshness window of that error invokes its query function.
C7_AsStated ==
    [][\A q \in Queries : \A k \in DOMAIN cache[q] :
          (/\ cache[q][k].status = "error"
           /\ cache[q][k].fetchStatus = "idle"
           /\ cache[q][k].errorAge < FreshnessWindow) => ~CallIssued(q, k)]_vars

\* C7 (amended): an error is held as the settled state of its input until
\* the input is submitted again, but it is not served from the cache: the
\* next submission of A after its query settled in error starts a new
\* fetch, within the freshness window too.
C7_ErrorHeldButRefetched ==
    [][\A q \in Queries : \A k \in DOMAIN cache[q] :
          LET e == cache[q][k] IN
          (e.status = "error" /\ e.fetchStatus = "idle") =>
              /\ Submitted(q, k) => (CallIssued(q, k) /\ cache'[q][k].calls = 1)
              /\ (k \in DOMAIN cache'[q] /\ ~Submitted(q, k)) =>
                    /\ ~CallIssued(q, k)
                    /\ cache'[q][k].status = "error"
                    /\ cache'[q][k].error = e.error]_vars

\* Input A, whose query had settled in error, was submitted again within
\* the window and is being fetched anew
C7_Witness ==
    /\ Observed("aggregate")
    /\ lastSubscribe = "error"
    /\ CurrentQuery("aggregate").attempt = "calling"
    /\ CurrentQuery("aggregate").calls = 1
    /\ CurrentQuery("aggregate").data = Null

-----------------------------------------------------------------------------
(* C8 *)

\* The invocation of the API client has settled
Invoked == client.result # Null

\* The request did not complete: network failure, timeout or abort
Incomplete(ev) == ev.type # "response"

\* The remote responded with a non-success status
NonSuccess(ev) == ev.type = "response" /\ ~(ev.status \in 200..299)

-----------------------------------------------------------------------------
(* C9 *)

\* The payload parses as JSON and has a non-empty detail
HasDetail(body) ==
    /\ body.parses
    /\ \E i \in DOMAIN body.value : body.value[i][1] = "detail" /\ body.value[i][2] # ""

DetailOf(body) ==
    LET i == CHOOSE j \in DOMAIN body.value : body.value[j][1] = "detail"
    IN body.value[i][2]

\* The message the claim names for a non-success response
RejectionMessage(ev) ==
    IF HasDetail(ev.body) THEN [text |-> DetailOf(ev.body), arg |-> Null]
    ELSE [text |-> "HTTP error ", arg |-> Some(ev.status)]

\* C9 as stated: for every operation, a non-success response raises an
\* error that carries the status, whose message is the payload's detail or
\* else the generic "HTTP error {status}", and that is never a parse failure.
C9_AsStated ==
    (Invoked /\ NonSuccess(client.event)) =>
        /\ client.result[1].settled = "rejected"
        /\ client.result[1].error[1].name # "SyntaxError"
        /\ client.result[1].error[1].status = Some(client.event.status)
        /\ client.result[1].error[1].message = RejectionMessage(client.event)

\* C9 (amended): for calculateHouseholdImpact, calculateAggregateImpact and
\* getDatasetSummary a non-success response raises an ApiError that carries
\* the status and the parsed payload (null when it does not parse), with the
\* payload's detail as message when it has a non-empty one and the generic
\* "HTTP error {status}" otherwise.  For health a non-success response
\* raises an ApiError without status and without payload, whose message is
\* "Health check failed: {status}".  No operation reports a parse failure
\* for a non-success response.
C9_RemoteRejection ==
    (Invoked /\ NonSuccess(client.event)) =>
        LET r == client.result[1]
            ev == client.event
        IN /\ r.settled = "rejected"
           /\ r.error[1].name = "ApiError"
           /\ IF client.op = "health"
              THEN /\ r.error[1].status = Null
                   /\ r.error[1].response = Null
                   /\ r.error[1].message =
                         [text |-> "Health check failed: ", arg |-> Some(ev.status)]
              ELSE /\ r.error[1].status = Some(ev.status)
                   /\ r.error[1].response =
                         (IF ev.body.parses THEN Some(ev.body.value) ELSE Null)
                   /\ r.error[1].message = RejectionMessage(ev)

\* The health check was answered 500: its error has no status
C9_Witness ==
    /\ Invoked
    /\ client.op = "health"
    /\ client.event.type = "response"
    /\ client.event.status = 500
    /\ client.result[1].settled = "rejected"
    /\ client.result[1].error[1].status = Null

-----------------------------------------------------------------------------
(* C10 *)

\* The deadline of an attempt of (q, k) has expired: its abort is the
\* failure the retryer is waiting on, or the error of the query
TimedOut(q, k) ==
    /\ k \in DOMAIN cache[q]
    /\ \/ cache[q][k].failureReason = Some(AbortError)
       \/ cache[q][k].error = Some(AbortError)

SettledInTimeoutError(q, k) ==
    /\ k \in DOMAIN cache[q]
    /\ cache[q][k].fetchStatus = "idle"
    /\ cache[q][k].error = Some(AbortError)

Fetching(q, k) == k \in DOMAIN cache[q] /\ cache[q][k].fetchStatus = "fetching"

-----------------------------------------------------------------------------
(* C11 *)
\* C11: every invocation of an operation of the API client sends exactly one
\* request, to the endpoint of the operation, whether the invocation
\* fulfils, is rejected by a status, by a network failure or by the
\* deadline; before the invocation nothing has been sent.
C11_OneRequestPerInvocation ==
    /\ ~Invoked => client.requests = <<>>
    /\ Invoked => client.requests = <<Endpoint(client.op)>>

\* An invocation that ran into the deadline and sent one request
C11_Witness ==
    /\ Invoked
    /\ client.op = "calculateHouseholdImpact"
    /\ client.event.type = "abort"
    /\ client.result[1].settled = "rejected"
    /\ Len(client.requests) = 1

-----------------------------------------------------------------------------
(* C12 *)
\* C12: whatever is done to the form (married checked or unchecked, spouse
\* age typed, other inputs edited, Calculate pressed), the spouse age is
\* null exactly when married is false, in the live form, in the submitted
\* snapshot and in the age_spouse of the request built from the snapshot.
C12_SpouseNullIffUnmarried ==
    /\ (form.ageSpouse = Null) <=> ~form.married
    /\ (calculated.ageSpouse = Null) <=> ~calculated.married
    /\ calculationTriggered =>
          ((Get(SubmittedRequest, "age_spouse") = Null) <=> ~calculated.married)

\* A married household with a typed spouse age was submitted, then the box
\* was unchecked
C12_Witness ==
    /\ calculationTriggered
    /\ calculated.married
    /\ Get(SubmittedRequest, "age_spouse") = Some(0)
    /\ ~form.married
    /\ form.ageSpouse = Null

-----------------------------------------------------------------------------
(* C13 *)
\* The first n entries of the list are what they were
KeptDependents(n) ==
    /\ n <= Len(form.dependentAges)
    /\ n <= Len(form'.dependentAges)
    /\ SubSeq(form'.dependentAges, 1, n) = SubSeq(form.dependentAges, 1, n)

\* The entries after the first n are new dependents of age 5
AddedDependents(n) ==
    \A i \in DOMAIN form'.dependentAges : i > n => form'.dependentAges[i] = 5

\* C13 as stated: after handleDependentCountChange(count) the list has
\* exactly count entries, the dependents that remain keep their ages and
\* their order, and every added dependent has age 5.
C13_AsStated ==
    [][\A count \in DependentCounts :
          handleDependentCountChange(count) =>
             /\ Len(form'.dependentAges) = count
             /\ KeptDependents(Min(count, Len(form.dependentAges)))
             /\ AddedDependents(Len(form.dependentAges))]_vars

\* C13: after handleDependentCountChange(count) with count >= 0 the list has
\* exactly count entries, the dependents that remain keep their ages and
\* their order, and every added dependent has age 5; with a negative count
\* the list loses its last -count entries (all of them when it has fewer)
\* and nothing is added.  The count shown is the length of the list.
C13_CountAndAgesConsistent ==
    [][\A count \in DependentCounts :
          handleDependentCountChange(count) =>
             LET len == Len(form.dependentAges)
                 left == IF len + count < 0 THEN 0 ELSE len + count
             IN IF count >= 0
                THEN /\ Len(form'.dependentAges) = count
                     /\ KeptDependents(Min(count, len))
                     /\ AddedDependents(len)
                ELSE /\ Len(form'.dependentAges) = left
                     /\ KeptDependents(left)]_vars

\* A dependent whose age was edited is kept and a dependent of age 5 added
C13_Witness == form.dependentAges = <<30, 5>>

-----------------------------------------------------------------------------
(* C14 *)
\* A threshold table with the five filing statuses, each once
FiveKeys(table) == Len(table) = 5 /\ ObjKeys(table) = FilingStatuses

\* The two threshold tables of a set of reform parameters are well formed
ThresholdTablesComplete(reformParams) ==
    /\ FiveKeys(Get(reformParams, "ctc_phaseout_thresholds"))
    /\ \/ Get(reformParams, "exemption_phaseout_thresholds") = Null
       \/ FiveKeys(Get(reformParams, "exemption_phaseout_thresholds"))

\* C14: in every state of the form, in the snapshot and in the body of every
\* request built from it, the CTC threshold table has exactly the five
\* filing-status keys and the exemption threshold table is null or has
\* exactly those five; an edit of a threshold changes no key.
C14_FiveFilingStatusKeys ==
    /\ ThresholdTablesComplete(form.reformParams)
    /\ ThresholdTablesComplete(calculated.reformParams)
    /\ \A q \in Queries :
          ThresholdTablesComplete(Get(QueryFnBody(q, calculated), "reform_params"))

\* Both tables were edited and submitted
C14_Witness ==
    /\ calculationTriggered
    /\ Get(Get(calculated.reformParams, "ctc_phaseout_thresholds"), "SINGLE") = 0 - 100
    /\ Get(Get(calculated.reformParams, "exemption_phaseout_thresholds"), "JOINT") = 0 - 100
    /\ FiveKeys(Get(Get(SubmittedRequest, "reform_params"), "ctc_phaseout_thresholds"))

-----------------------------------------------------------------------------
-----------------------------------------------------------------------------
-----------------------------------------------------------------------------
(* C17 *)
\* The body carries the values of the snapshot c, each number as its numeral
BodyCarries(body, aggregateBody, c) ==
    /\ Get(body, "age_head") = Some(c.ageHead)
    /\ Get(body, "age_spouse") = c.ageSpouse
    /\ Get(body, "dependent_ages") = [i \in DOMAIN c.dependentAges |-> Some(c.dependentAges[i])]
    /\ Get(body, "income") = Some(c.income)
    /\ \A table \in NestedKeys : \A status \in FilingStatuses :
          Get(Get(Get(body, "reform_params"), table), status) =
             Some(Get(Get(c.reformParams, table), status))
    /\ Get(body, "reform_params") = Get(aggregateBody, "reform_params")
    /\ Get(Get(aggregateBody, "reform_params"), "ctc_amount") =
          Some(Get(c.reformParams, "ctc_amount"))

\* C17 as stated: the bodies of the requests carry every value of the
\* submitted household and of the submitted reform parameters as it was
\* submitted, values outside the ranges of the inputs included: nothing is
\* clamped, replaced by a default or held back.
C17_AsStated ==
    calculationTriggered =>
        BodyCarries(HouseholdBody(SubmittedRequest),
                    AggregateBody(calculated.reformParams), calculated)

\* C17: the bodies of the requests carry every finite value of the
\* submitted household and of the submitted reform parameters as it was
\* submitted, values outside the ranges of the inputs included (a negative
\* income, an age above the limit, a negative threshold); a number that is
\* not finite is in the body as null.
C17_RequestPassesThrough ==
    calculationTriggered =>
        LET body == HouseholdBody(SubmittedRequest) IN
        IF calculated.income = Infinity
        THEN /\ Get(body, "income") = Null
             /\ BodyCarries(Spread(body, "income", Some(Infinity)),
                            AggregateBody(calculated.reformParams), calculated)
        ELSE BodyCarries(body, AggregateBody(calculated.reformParams), calculated)

\* A negative income, a dependent of 30 and a negative threshold were
\* submitted and are in the body of the request
C17_Witness ==
    /\ calculationTriggered
    /\ Get(HouseholdBody(SubmittedRequest), "income") = Some(0 - 1)
    /\ Get(HouseholdBody(SubmittedRequest), "dependent_ages") = <<Some(30)>>
    /\ Get(Get(Get(HouseholdBody(SubmittedRequest), "reform_params"),
               "ctc_phaseout_thresholds"), "SINGLE") = Some(0 - 100)

-----------------------------------------------------------------------------
(* C18 *)
\* C18: every request is complete: the body of a household-impact request
\* has age_head, age_spouse, dependent_ages, income, year and reform_params,
\* and the body of an aggregate-impact request has year and reform_params.
C18_RequestsComplete ==
    calculationTriggered =>
        /\ ObjKeys(HouseholdBody(SubmittedRequest)) =
              {"age_head", "age_spouse", "dependent_ages", "income", "year", "reform_params"}
        /\ ObjKeys(AggregateBody(calculated.reformParams)) = {"year", "reform_params"}

-----------------------------------------------------------------------------
(* C19 *)
\* C19: the submitted snapshot changes only in handleCalculate, where it
\* becomes the live form; an edit of the form changes neither the snapshot
\* nor any query; a tab switch and every step of a query leave the snapshot
\* alone; and what a newly subscribed view requests and shows is built from
\* the snapshot, whatever was edited since.
C19_SnapshotOnlyByCalculate ==
    [][/\ calculated' # calculated =>
             /\ ButtonEnabled(calculationTriggered, form, calculated)
             /\ calculated' = form
             /\ form' = form
             /\ calculationTriggered'
             /\ navigations' = navigations + 1
       /\ form' # form =>
             /\ calculated' = calculated
             /\ cache' = cache
             /\ observer' = observer
       /\ activeTab' # activeTab => calculated' = calculated
       /\ (cache' # cache /\ navigations' = navigations) => calculated' = calculated
       /\ \A q \in Queries :
             (observer'[q] # observer[q] /\ observer'[q] # Null) =>
                 LET e == cache'[q][observer'[q][1]] IN
                 /\ e.sent # Null => e.sent[1] = QueryFnBody(q, calculated')
                 /\ e.data # Null => e.data[1] = ResultFor(QueryFnBody(q, calculated'))]_vars

\* The form was edited after the calculation and the aggregate view shows
\* the result of the submitted input
C19_Witness ==
    /\ Observed("aggregate")
    /\ form # calculated
    /\ CurrentQuery("aggregate").data =
          Some(ResultFor(AggregateBody(calculated.reformParams)))
    /\ CurrentQuery("aggregate").data #
          Some(ResultFor(AggregateBody(form.reformParams)))

-----------------------------------------------------------------------------
(* C20 *)
\* The breakdown of a result does not add up to its difference
Inconsistent(benefitData) ==
    Get(benefitData, "ctc_component") + Get(benefitData, "exemption_tax_benefit")
        # Get(benefitData, "difference")

\* C20: when the breakdown of a rendered result does not add up to its
\* difference, the data-integrity warning is raised and nothing is held
\* back: the headline shows the difference, and the breakdown shows both
\* components as received, with the flag of the inconsistency.
C20_InconsistentBreakdownFlagged ==
    LET benefitData == Get(ImpactData, "benefit_at_income") IN
    (view # Null /\ Inconsistent(benefitData)) =>
        /\ "DataIntegrityWarning" \in view[1].elements
        /\ "headline" \in view[1].elements
        /\ view[1].headline.text.amount = formatCurrency(Get(benefitData, "difference"))
        /\ "breakdown" \in view[1].elements

-----------------------------------------------------------------------------
-----------------------------------------------------------------------------
(* C22 *)
\* The formatted text has the sign and the exact magnitude of the value
SignKept(formatted, value) ==
    /\ formatted.text.magnitude = Abs(value)
    /\ ~formatted.text.negative
    /\ formatted.sign = IF value < 0 THEN "-" ELSE "+"

-----------------------------------------------------------------------------
(* C23 *)

\* The state of the logical query q as the component of its tab shows it;
\* "unmounted" while the results are shown with another tab open
LogicalState(q) ==
    IF ~calculationTriggered THEN "idle"
    ELSE IF observer[q] = Null THEN "unmounted"
    ELSE IF CurrentQuery(q).fetchStatus = "fetching" THEN "pending"
    ELSE "settled"

\* This step is a submission: handleCalculate
SubmissionStep == navigations' # navigations /\ activeTab' = activeTab

\* This step is a tab button
TabStep == navigations' # navigations /\ activeTab' # activeTab

\* The request of the query that q observes resolves in this step: the
\* same query is observed before and after, and it holds data or an error
ResolvedStep(q) ==
    /\ observer'[q] = observer[q]
    /\ navigations' = navigations
    /\ cache'[q][observer[q][1]].status \in {"success", "error"}

\* C23 as stated: a query becomes pending only by a submission, a pending
\* query becomes settled only by its request resolving, and no query returns
\* to idle.
C23_AsStated ==
    [][\A q \in Queries :
          /\ LogicalState(q) # "idle" => LogicalState(q)' # "idle"
          /\ (LogicalState(q) # "pending" /\ LogicalState(q)' = "pending")
                => SubmissionStep
          /\ (LogicalState(q) = "pending" /\ LogicalState(q)' = "settled")
                => ResolvedStep(q)]_vars

\* C23: each logical query, as the component of its tab shows it, is idle
\* until the first submission and never again afterwards.  It becomes
\* pending only by a submission or by its tab being opened, when the
\* subscription finds no result, a stale result, a failed result or a
\* request still in flight; a submission always finds one of these the first
\* time.  A pending query becomes settled only when its request resolves
\* with data or an error, or when a resubmission finds a fresh result in the
\* cache.
C23_QueryLifecycle ==
    [][\A q \in Queries :
          /\ LogicalState(q) # "idle" => LogicalState(q)' # "idle"
          /\ (LogicalState(q) = "idle" /\ LogicalState(q)' # "idle")
                => /\ SubmissionStep
                   /\ LogicalState(q)' = IF Observed(q)' THEN "pending" ELSE "unmounted"
          /\ (LogicalState(q) # "pending" /\ LogicalState(q)' = "pending")
                => /\ SubmissionStep \/ TabStep
                   /\ lastSubscribe' \in {"new", "stale", "error", "fetching"}
          /\ (LogicalState(q) = "pending" /\ LogicalState(q)' = "settled")
                => \/ ResolvedStep(q)
                   \/ SubmissionStep /\ lastSubscribe' = "fresh"]_vars

\* A settled query is pending again without a resubmission: its tab was
\* opened again over a stale result
C23_Witness ==
    /\ lastSubscribe = "stale"
    /\ calculated = form
    /\ navigations >= 3
    /\ \E q \in Queries :
          /\ LogicalState(q) = "pending"
          /\ CurrentQuery(q).status = "success"
          /\ cache[IF q = "household" THEN "aggregate" ELSE "household"] # <<>>

-----------------------------------------------------------------------------
(* C24 *)

\* The requests of q in flight that a mounted component observes
ObservedRequests(q) ==
    {k \in DOMAIN cache[q] :
        cache[q][k].observers > 0 /\ cache[q][k].fetchStatus = "fetching"}

\* A new input is submitted for q in this step while the request of the
\* input submitted before is still pending
SupersedingStep(q) ==
    /\ observer[q] # Null
    /\ observer'[q] # Null
    /\ observer'[q] # observer[q]
    /\ CurrentQuery(q).fetchStatus = "fetching"

\* C24: as far as the view can observe, at most one request per logical
\* query is outstanding: only the query of the submitted input has an
\* observer, so at most one request in flight is observed; and submitting a
\* new input while a request is pending supersedes that request: it loses
\* its observer, it is not retried, and the view observes the query of the
\* new input.
C24_OneObservedRequest ==
    /\ [](\A q \in Queries :
            /\ Cardinality(ObservedRequests(q)) <= 1
            /\ \A k \in DOMAIN cache[q] :
                  cache[q][k].observers > 0 => observer[q] = Some(k))
    /\ [][\A q \in Queries :
            SupersedingStep(q) =>
                LET old == observer[q][1] IN
                /\ old \in DOMAIN cache'[q]
                /\ cache'[q][old].observers = 0
                /\ cache'[q][old].isRetryCancelled
                /\ ObservedRequests(q)' \subseteq {observer'[q][1]}]_vars

\* Two requests of one query are in flight, the superseded one without an
\* observer and the one of the submitted input
C24_Witness ==
    \E q \in Queries :
        /\ observer[q] # Null
        /\ ObservedRequests(q) = {observer[q][1]}
        /\ CurrentQuery(q).attempt = "calling"
        /\ \E k \in DOMAIN cache[q] :
              /\ cache[q][k].observers = 0
              /\ cache[q][k].attempt = "calling"
              /\ cache[q][k].isRetryCancelled

-----------------------------------------------------------------------------
(* C25 *)

\* The cached state of a query: the fields of Query.state
CachedState(e) ==
    [status |-> e.status, data |-> e.data, error |-> e.error,
     fetchStatus |-> e.fetchStatus, attempt |-> e.attempt,
     failureCount |-> e.failureCount, failureReason |-> e.failureReason]

\* This step is a transition of a request of q: a fetch starts, succeeds,
\* fails, times out or is retried
TransitionOf(q) ==
    \E k \in DOMAIN cache'[q] :
        \/ k \notin DOMAIN cache[q]
        \/ CachedState(cache'[q][k]) # CachedState(cache[q][k])

OtherQuery(q) == IF q = "household" THEN "aggregate" ELSE "household"

\* C25: the two queries are independent.  A transition of a request of one
\* query leaves the cached state of every query of the other as it was; and
\* a subscription that finds no result, a stale result or a failed one
\* starts its request whatever the other query is doing.
C25_QueriesIndependent ==
    [][/\ \A q \in Queries :
             TransitionOf(q) =>
                LET o == OtherQuery(q) IN
                /\ DOMAIN cache'[o] = DOMAIN cache[o]
                /\ \A k \in DOMAIN cache[o] :
                      CachedState(cache'[o][k]) = CachedState(cache[o][k])
       /\ (navigations' # navigations /\ lastSubscribe' \in {"new", "stale", "error"})
             => LET q == TabQuery(activeTab') IN
                cache'[q][observer'[q][1]].fetchStatus = "fetching"]_vars

\* Both queries are pending at the same time: the aggregate tab was opened
\* while the household request was in flight
C25_Witness ==
    /\ activeTab = "aggregate"
    /\ \E k \in DOMAIN cache["household"] :
          cache["household"][k].fetchStatus = "fetching"
    /\ \E k \in DOMAIN cache["aggregate"] :
          cache["aggregate"][k].fetchStatus = "fetching"

-----------------------------------------------------------------------------
(* C26 *)

\* The indices of the sampled incomes up to x_axis_max
KeptSamples(data) ==
    {i \in DOMAIN Get(data, "income_range") :
        Get(data, "income_range")[i] <= Get(data, "x_axis_max")}

\* The n-th of the kept indices, in the order of the response
NthKept(data, n) ==
    CHOOSE i \in KeptSamples(data) :
        Cardinality({m \in KeptSamples(data) : m < i}) = n - 1

\* C26: for every household result the charted series has exactly one
\* point per sampled income up to x_axis_max, in the order of the response,
\* and the change charted at each point is ctc_reform_range[i] -
\* ctc_baseline_range[i] of its sample i; samples above x_axis_max have no
\* point.
C26_ChartedSeries ==
    view # Null =>
        LET line == view[1].line IN
        /\ Len(line) = Cardinality(KeptSamples(ImpactData))
        /\ \A n \in DOMAIN line :
              LET i == NthKept(ImpactData, n) IN
              /\ line[n].x = Get(ImpactData, "income_range")[i]
              /\ line[n].y = Get(ImpactData, "ctc_reform_range")[i]
                               - Get(ImpactData, "ctc_baseline_range")[i]

\* A sample above x_axis_max is dropped, the sample at x_axis_max is the
\* last point charted, and the reform lowers the credit there
C26_Witness ==
    /\ view # Null
    /\ Len(view[1].line) >= 2
    /\ Len(view[1].line) < Len(Get(ImpactData, "income_range"))
    /\ view[1].line[Len(view[1].line)].x = Get(ImpactData, "x_axis_max")
    /\ view[1].line[Len(view[1].line)].y < 0

-----------------------------------------------------------------------------
(* C27 *)

\* This step is handleCalculate
CalculateStep == calculated' # calculated \/ calculationTriggered' # calculationTriggered

\* C27: right after handleCalculate the live input is the submitted
\* snapshot, hasChanges is false and the control is disabled; and whenever
\* the edits made since have brought every field back to its submitted
\* value, hasChanges is false and the control is disabled again.
C27_NoChangesAtSnapshot ==
    /\ [][CalculateStep =>
            /\ form' = calculated'
            /\ ~hasChanges(form', calculated')
            /\ ~ButtonEnabled(calculationTriggered', form', calculated')]_vars
    /\ [](~DiffersByValue(form, calculated) =>
            /\ ~hasChanges(form, calculated)
            /\ calculationTriggered => ~ButtonEnabled(calculationTriggered, form, calculated))

\* A married household with two dependents and edited thresholds was
\* submitted and nothing differs from the snapshot
C27_Witness ==
    /\ calculationTriggered
    /\ form.married
    /\ Len(form.dependentAges) = 2
    /\ form.reformParams # DefaultReformParams
    /\ form.income # InitialForm.income
    /\ ~DiffersByValue(form, calculated)
    /\ ~ButtonEnabled(calculationTriggered, form, calculated)

-----------------------------------------------------------------------------
(* C28 *)

\* No query exists, none is observed and no request was sent
NothingRequested ==
    \A q \in Queries : cache[q] = <<>> /\ observer[q] = Null

\* C28: while calculationTriggered is false there is no query and no
\* request, whatever was edited; a step that issues a request from that
\* state is handleCalculate, which sets calculationTriggered; and
\* calculationTriggered, once true, stays true.
C28_NoRequestBeforeCalculate ==
    /\ [](~calculationTriggered => NothingRequested)
    /\ [][/\ calculationTriggered => calculationTriggered'
          /\ (~calculationTriggered /\ form' # form) => NothingRequested'
          /\ (~calculationTriggered /\ ~NothingRequested')
                => /\ calculationTriggered'
                   /\ calculated' = form
                   /\ form' = form
                   /\ navigations' = navigations + 1]_vars

\* The form was edited before any calculation and nothing was requested
C28_Witness ==
    /\ ~calculationTriggered
    /\ form # InitialForm
    /\ form # calculated
    /\ NothingRequested
    /\ navigations = 0

-----------------------------------------------------------------------------
(* C29 *)

-----------------------------------------------------------------------------
(* C30 *)

\* The invocation has returned or thrown
Exited(call) == call.pc \in {"returned", "thrown"}

\* C30: fetchWithTimeout leaves no deadline timer behind: on whichever
\* path it has returned or thrown (response, network failure, abort), its
\* timer is cleared or has fired; the abort callback fires only while the
\* invocation is awaiting an outstanding fetch; and nothing of an
\* invocation changes once it has exited.
C30_TimerClearedOnEveryExit ==
    /\ [](\A c \in Invocations :
            Exited(client[c]) =>
                /\ client[c].timer \in {"cleared", "fired"}
                /\ client[c].timer = "fired" <=> client[c].outcome = "AbortError")
    /\ [][\A c \in Invocations :
            /\ client'[c].aborted # client[c].aborted =>
                  /\ client[c].pc = "awaiting"
                  /\ client[c].fetch = "outstanding"
                  /\ client'[c].fetch = "aborted"
            /\ Exited(client[c]) => client'[c] = client[c]]_vars

\* The three exit paths side by side: one invocation has thrown AbortError
\* at its deadline, the other has thrown the network failure before its
\* deadline with its timer cleared
C30_Witness ==
    \E c, d \in Invocations :
        /\ client[c].outcome = "AbortError"
        /\ client[c].timer = "fired"
        /\ client[d].outcome = "TypeError"
        /\ client[d].timer = "cleared"
        /\ client[d].elapsed < DeadlineTicks

====
